---- MODULE Spec2Model ----
(***************************************************************************)
(* Model of the FTDC viewer command line tool, src/ftdc/cmd/parser.go:     *)
(* the gnuplotWriter (series routing, script compilation, rendering) and   *)
(* the interactive command loop of main.                                   *)
(*                                                                         *)
(* Text is modelled as sequences of one-character strings, so that         *)
(* TrimSpace, HasPrefix, SplitN and time.Parse are computed, not assumed.  *)
(* int64 values are modelled by the model checker's integers: MaxInt64     *)
(* stands for math.MaxInt64 and is the largest integer of the model; every *)
(* timestamp of the model is strictly smaller.                             *)
(***************************************************************************)
EXTENDS Integers, Sequences, FiniteSets, TLC

\* Bound of the model: the number of datapoints of a decoded dataset.
MaxData == 2

\* math.MaxInt64 (largest value of the model's integers)
MaxInt64 == 2147483647

(***************************************************************************)
(* State                                                                   *)
(***************************************************************************)
VARIABLES
    data,          \* the decoded dataset
    graphOptions,  \* the time window of the loop
    render,        \* the render flag of the loop
    pc,            \* "loop", "route", "gnuplot", "prompt", "exited", "panic"
    cmd,           \* the last command read, trimmed
    err,           \* the error of the last read
    gpw,           \* the gnuplotWriter of the current render pass
    next,          \* position in data of the next datum to route
    script,        \* the lines written to the top-level file of the pass
    gnuFile,       \* "none", "open" or "closed": the top-level file
    gnuplotErr,    \* whether the last gnuplot run failed
    fault,         \* what the program panicked on, "" when it did not
    passes,        \* render passes begun since the last read (or the start)
    started,       \* whether a command has been read
    firstRender,   \* the series of the render pass at startup
    printed        \* the last message printed to standard output

vars == <<data, graphOptions, render, pc, cmd, err, gpw, next, script, gnuFile,
          gnuplotErr, fault, passes, started, firstRender, printed>>

(***************************************************************************)
(* Text helpers (package strings)                                          *)
(***************************************************************************)
IsSpace(c) == c \in {" ", "\t", "\n", "\r"}

RECURSIVE TrimLeft(_)
TrimLeft(s) ==
    IF s = <<>> THEN s
    ELSE IF IsSpace(Head(s)) THEN TrimLeft(Tail(s)) ELSE s

RECURSIVE TrimRight(_)
TrimRight(s) ==
    IF s = <<>> THEN s
    ELSE IF IsSpace(s[Len(s)]) THEN TrimRight(SubSeq(s, 1, Len(s) - 1)) ELSE s

TrimSpace(s) == TrimRight(TrimLeft(s))

HasPrefix(s, prefix) ==
    /\ Len(s) >= Len(prefix)
    /\ SubSeq(s, 1, Len(prefix)) = prefix

\* index of the first occurrence of character c in s, 0 when there is none
IndexOf(s, c) ==
    IF \E k \in 1..Len(s) : s[k] = c
    THEN CHOOSE k \in 1..Len(s) : s[k] = c /\ \A j \in 1..(k - 1) : s[j] # c
    ELSE 0

\* strings.SplitN(s, sep, n) for a one-character separator and n > 0
RECURSIVE SplitN(_, _, _)
SplitN(s, sep, n) ==
    IF n = 1 \/ IndexOf(s, sep) = 0 THEN <<s>>
    ELSE <<SubSeq(s, 1, IndexOf(s, sep) - 1)>>
             \o SplitN(SubSeq(s, IndexOf(s, sep) + 1, Len(s)), sep, n - 1)

\* strings.Replace(s, "_", "\\_", 1): only the first underscore
RECURSIVE EscapeUnderscoresMutant(_)
EscapeUnderscoresMutant(s) ==
    IF s = <<>> THEN <<>>
    ELSE IF Head(s) = "_" THEN <<"\\", "_">> \o Tail(s)
    ELSE <<Head(s)>> \o EscapeUnderscoresMutant(Tail(s))

\* strings.ReplaceAll(s, "_", "\\_")
RECURSIVE EscapeUnderscores(_)
EscapeUnderscores(s) ==
    IF s = <<>> THEN <<>>
    ELSE (IF Head(s) = "_" THEN <<"\\", "_">> ELSE <<Head(s)>>)
             \o EscapeUnderscores(Tail(s))

(***************************************************************************)
(* time.Parse("2006-01-02T15:04:05", s) followed by Unix(), for texts of   *)
(* the fixed width of the layout; any other text of the model is a parse   *)
(* error.                                                                  *)
(***************************************************************************)
Digits == {"0", "1", "2", "3", "4", "5", "6", "7", "8", "9"}

DigitVal(c) ==
    CASE c = "0" -> 0 [] c = "1" -> 1 [] c = "2" -> 2 [] c = "3" -> 3
      [] c = "4" -> 4 [] c = "5" -> 5 [] c = "6" -> 6 [] c = "7" -> 7
      [] c = "8" -> 8 [] c = "9" -> 9

Num2(s, k) == 10 * DigitVal(s[k]) + DigitVal(s[k + 1])

Num4(s, k) == 100 * Num2(s, k) + Num2(s, k + 2)

IsLeap(y) == (y % 4 = 0) /\ ((y % 100 # 0) \/ (y % 400 = 0))

DaysIn(y, m) ==
    IF m = 2 THEN (IF IsLeap(y) THEN 29 ELSE 28)
    ELSE IF m \in {4, 6, 9, 11} THEN 30 ELSE 31

\* days between 1970-01-01 and the civil date y-m-d
DaysFromCivil(y, m, d) ==
    LET yy  == IF m <= 2 THEN y - 1 ELSE y
        era == yy \div 400
        yoe == yy - era * 400
        mp  == (m + 9) % 12
        doy == (153 * mp + 2) \div 5 + d - 1
        doe == yoe * 365 + yoe \div 4 - yoe \div 100 + doy
    IN  era * 146097 + doe - 719468

WellFormedTime(s) ==
    /\ Len(s) = 19
    /\ \A k \in {1, 2, 3, 4, 6, 7, 9, 10, 12, 13, 15, 16, 18, 19} : s[k] \in Digits
    /\ s[5] = "-" /\ s[8] = "-" /\ s[11] = "T" /\ s[14] = ":" /\ s[17] = ":"
    /\ Num2(s, 6) \in 1..12
    /\ Num2(s, 9) \in 1..DaysIn(Num4(s, 1), Num2(s, 6))
    /\ Num2(s, 12) < 24
    /\ Num2(s, 15) < 60
    /\ Num2(s, 18) < 60

\* goTime.Unix() of a well-formed text
UnixOf(s) ==
    DaysFromCivil(Num4(s, 1), Num2(s, 6), Num2(s, 9)) * 86400
        + Num2(s, 12) * 3600 + Num2(s, 15) * 60 + Num2(s, 18)

(***************************************************************************)
(* Texts of the model                                                      *)
(***************************************************************************)
kwRange == <<"r", "a", "n", "g", "e", " ">>
kwResetRange == <<"r", "e", "s", "e", "t", " ", "r", "a", "n", "g", "e">>
kwQuit == <<"q", "u", "i", "t">>
kwH == <<"h">>
kwHelp == <<"h", "e", "l", "p">>
kwStart == <<"s", "t", "a", "r", "t">>
kwEnd == <<"e", "n", "d">>

\* timestamps 0, 100, 150 and 200 seconds after the epoch
T0 == <<"1", "9", "7", "0", "-", "0", "1", "-", "0", "1", "T", "0", "0", ":", "0", "0", ":", "0", "0">>
T100 == <<"1", "9", "7", "0", "-", "0", "1", "-", "0", "1", "T", "0", "0", ":", "0", "1", ":", "4", "0">>
T150 == <<"1", "9", "7", "0", "-", "0", "1", "-", "0", "1", "T", "0", "0", ":", "0", "2", ":", "3", "0">>
T200 == <<"1", "9", "7", "0", "-", "0", "1", "-", "0", "1", "T", "0", "0", ":", "0", "3", ":", "2", "0">>
\* malformed bounds: a day that does not exist, and a bare number
BadDay == <<"1", "9", "7", "0", "-", "0", "2", "-", "3", "0", "T", "0", "0", ":", "0", "0", ":", "0", "0">>
BadText == <<"1", "0", "0">>

Zoom == <<"z", "o", "o", "m">>
Sp == <<" ">>
Nl == <<"\n">>

StartTokens == {kwStart, T0, T100, T200, BadDay}
EndTokens == {kwEnd, T150, BadText}

\* range commands with two bounds
TwoBoundTexts == {kwRange \o a \o Sp \o b : a \in StartTokens, b \in EndTokens}

\* range commands with no bound, one bound, an empty first bound, three words
OddRangeTexts ==
    { kwRange,
      kwRange \o T100,
      kwRange \o kwStart,
      kwRange \o Sp \o T150,
      kwRange \o T100 \o Sp \o T150 \o Sp \o kwEnd }

OtherTexts ==
    { kwResetRange, kwResetRange \o Sp \o Zoom, kwQuit, Sp \o kwQuit,
      kwH, kwHelp, <<>>, Sp \o Sp, Zoom, kwHelp \o Sp \o Zoom }

Texts == TwoBoundTexts \cup OddRangeTexts \cup OtherTexts

\* what ReadString('\n') can return: a line with its delimiter, the rest of
\* the input at its end, or what was read before another read error
Inputs ==
    {[line |-> t \o Nl, err |-> "nil"] : t \in Texts}
      \cup {[line |-> t, err |-> "EOF"] : t \in {<<>>, kwHelp, kwRange \o T100}}
      \cup {[line |-> t, err |-> "other"] : t \in {<<>>, kwResetRange}}

(***************************************************************************)
(* Decoded data (ftdc.FlatDatum, ftdc.Reading)                             *)
(***************************************************************************)
cpu == <<"c", "p", "u">>
mem == <<"m", "e", "m">>
\* a name with a single, a double and a final underscore
mem_used == <<"m", "e", "m", "_", "u", "s", "e", "d", "_", "_", "k", "b", "_">>

\* a Reading; Value is a float32, modelled in millionths
Reading(name, value) == [MetricName |-> name, Value |-> value]

\* a FlatDatum; Time is modelled in seconds
FlatDatum(t, readings) == [Time |-> t, Readings |-> readings]

\* datum.ConvertedTime().Unix()
ConvertedTimeUnix(datum) == datum.Time

Datums ==
    { FlatDatum(100, <<Reading(cpu, 1000000)>>),
      FlatDatum(200, <<Reading(cpu, 2000000)>>),
      FlatDatum(150, <<Reading(mem_used, 3000002), Reading(cpu, 1000000)>>) }

\* the dataset of the scenario of the specification
Scenario ==
    << FlatDatum(100, <<Reading(cpu, 1000000)>>),
       FlatDatum(200, <<Reading(cpu, 2000000)>>),
       FlatDatum(150, <<Reading(mem, 5000000)>>) >>

SeqsUpTo(S, n) == UNION {[1..k -> S] : k \in 0..n}

Datasets == SeqsUpTo(Datums, MaxData) \cup {Scenario}

(***************************************************************************)
(* graphOptions and gnuplotWriter                                          *)
(***************************************************************************)
\* the zero value graphOptions{}
defaultGraphOptionsMutant == [minTimeSeconds |-> 0, maxTimeSeconds |-> 0]

defaultGraphOptions == [minTimeSeconds |-> 0, maxTimeSeconds |-> MaxInt64]

\* a map with no entry
EmptyMap == [m \in {} |-> 0]

newGnuPlotWriterMutant(options) ==
    [metricFiles |-> gpw.metricFiles, options |-> options]

newGnuPlotWriter(options) == [metricFiles |-> EmptyMap, options |-> options]

InWindowMutant(timeSeconds, options) ==
    ~(timeSeconds <= options.minTimeSeconds \/ timeSeconds >= options.maxTimeSeconds)

\* negation of the early return of addPoint
InWindow(timeSeconds, options) ==
    ~(timeSeconds < options.minTimeSeconds \/ timeSeconds > options.maxTimeSeconds)

\* the file os.CreateTemp returns: named by its rank among the pass's files
NewDatafile(metricFiles) ==
    [name |-> Cardinality(DOMAIN metricFiles) + 1, lines |-> <<>>, closed |-> FALSE]

\* gpw.metricFiles after getDatafile(metricName)
getDatafile(metricFiles, metricName) ==
    IF metricName \in DOMAIN metricFiles THEN metricFiles
    ELSE [m \in DOMAIN metricFiles \cup {metricName} |->
             IF m = metricName THEN NewDatafile(metricFiles) ELSE metricFiles[m]]

\* "%.5f" of a value given in millionths: hundred-thousandths, rounded
Format5(metricValue) == (metricValue + 5) \div 10

\* the line "%v %.5f" of a point
PointLine(timeSeconds, metricValue) == [t |-> timeSeconds, v |-> Format5(metricValue)]

WriteLineMutant(metricFiles, metricName, line) ==
    [metricFiles EXCEPT ![metricName].lines = <<line>> \o @]

\* writelnf to a data file
WriteLine(metricFiles, metricName, line) ==
    [metricFiles EXCEPT ![metricName].lines = Append(@, line)]

addPointMutant(g, timeSeconds, metricName, metricValue) ==
    IF ~InWindow(timeSeconds, g.options)
    THEN [g EXCEPT !.metricFiles = getDatafile(g.metricFiles, metricName)]
    ELSE [g EXCEPT !.metricFiles =
             WriteLine(getDatafile(g.metricFiles, metricName), metricName,
                       PointLine(timeSeconds, metricValue))]

addPoint(g, timeSeconds, metricName, metricValue) ==
    IF ~InWindow(timeSeconds, g.options) THEN g
    ELSE [g EXCEPT !.metricFiles =
             WriteLine(getDatafile(g.metricFiles, metricName), metricName,
                       PointLine(timeSeconds, metricValue))]

\* addFlatDatum restricted to the first n readings of the datum
RECURSIVE addReadings(_, _, _)
addReadings(g, datum, n) ==
    IF n = 0 THEN g
    ELSE addPoint(addReadings(g, datum, n - 1), ConvertedTimeUnix(datum),
                  datum.Readings[n].MetricName, datum.Readings[n].Value)

addFlatDatum(g, datum) == addReadings(g, datum, Len(datum.Readings))

\* the contents of the series of a writer, by metric name
Series(g) == [m \in DOMAIN g.metricFiles |-> g.metricFiles[m].lines]

(***************************************************************************)
(* Script compilation (CompileAndClose)                                    *)
(***************************************************************************)
\* width of the png, and height of the png per metric
PngWidth == 1000
PerGraphHeight == 200

\* the lines written before the plot directives
ScriptHeader(metricFiles) ==
    << [kind |-> "term", width |-> PngWidth,
        height |-> PerGraphHeight * Cardinality(DOMAIN metricFiles)],
       [kind |-> "output"],
       [kind |-> "multiplot", rows |-> Cardinality(DOMAIN metricFiles)],
       [kind |-> "timefmt"],
       [kind |-> "format"],
       [kind |-> "xlabel"],
       [kind |-> "xdata"],
       [kind |-> "yrange"] >>

\* the plot directive of a metric
PlotLine(metricFiles, metricName) ==
    [kind |-> "plot", file |-> metricFiles[metricName].name,
     title |-> EscapeUnderscores(metricName)]

MapOrdersMutant(metricFiles) ==
    {o \in [1..Cardinality(DOMAIN metricFiles) -> DOMAIN metricFiles] :
        /\ DOMAIN metricFiles # {}
        /\ \A a, b \in DOMAIN o : o[a] = o[b] => a = b}

\* the orders in which a range over a map can visit its keys
MapOrders(metricFiles) ==
    {o \in [1..Cardinality(DOMAIN metricFiles) -> DOMAIN metricFiles] :
        \A a, b \in DOMAIN o : o[a] = o[b] => a = b}

\* the whole script, for an iteration order of the map
ScriptLines(metricFiles, order) ==
    ScriptHeader(metricFiles)
        \o [k \in 1..Len(order) |-> PlotLine(metricFiles, order[k])]

\* the files after the first n metrics of the order have been closed
CloseFirst(metricFiles, order, n) ==
    [m \in DOMAIN metricFiles |->
        IF \E k \in 1..n : order[k] = m
        THEN [metricFiles[m] EXCEPT !.closed = TRUE]
        ELSE metricFiles[m]]

(***************************************************************************)
(* The command loop of main                                                *)
(***************************************************************************)
\* result of one pass through the switch: the options, the render flag at
\* the next loop head, and where control goes
Result(options, r, to) == [graphOptions |-> options, render |-> r, pc |-> to]

\* the render flag the help, empty and default cases leave
HelpRenderMutant == TRUE
HelpRender == FALSE
EmptyRender == FALSE
DefaultRenderMutant == TRUE
DefaultRender == FALSE

\* line 203: the render flag of every case that does not clear it, also of a
\* `continue` after a parse error
LoopRenderMutant == FALSE
LoopRender == TRUE

SetStartMutant(options, start) ==
    IF start = kwStart THEN options
    ELSE IF WellFormedTime(start)
         THEN [options EXCEPT !.minTimeSeconds = UnixOf(start)]
         ELSE options

\* the start clause of the range case
SetStart(options, start) ==
    IF start = kwStart THEN [options EXCEPT !.minTimeSeconds = 0]
    ELSE IF WellFormedTime(start)
         THEN [options EXCEPT !.minTimeSeconds = UnixOf(start)]
         ELSE options

\* an end before the start is refused
SetEndMutant(options, end) ==
    IF end = kwEnd THEN [options EXCEPT !.maxTimeSeconds = MaxInt64]
    ELSE IF WellFormedTime(end) /\ UnixOf(end) >= options.minTimeSeconds
         THEN [options EXCEPT !.maxTimeSeconds = UnixOf(end)]
         ELSE options

\* the end clause of the range case
SetEnd(options, end) ==
    IF end = kwEnd THEN [options EXCEPT !.maxTimeSeconds = MaxInt64]
    ELSE IF WellFormedTime(end)
         THEN [options EXCEPT !.maxTimeSeconds = UnixOf(end)]
         ELSE options

StartParseError(start) == start # kwStart /\ ~WellFormedTime(start)
EndParseError(end) == end # kwEnd /\ ~WellFormedTime(end)

\* the case strings.HasPrefix(cmd, "range ")
RangeCase(options, c) ==
    LET pieces == SplitN(c, " ", 3)
    IN  IF Len(pieces) < 3 THEN Result(options, LoopRender, "panic")
        ELSE IF StartParseError(pieces[2])
             THEN Result(options, LoopRender, "loop")
        ELSE IF EndParseError(pieces[3])
             THEN Result(SetStart(options, pieces[2]), LoopRender, "loop")
        ELSE Result(SetEnd(SetStart(options, pieces[2]), pieces[3]),
                    LoopRender, "loop")

\* the case strings.HasPrefix(cmd, "reset range")
ResetCaseMutant(options) ==
    Result([options EXCEPT !.minTimeSeconds = 0], LoopRender, "loop")

ResetCase(options) ==
    Result([options EXCEPT !.minTimeSeconds = 0, !.maxTimeSeconds = MaxInt64],
           LoopRender, "loop")

\* the switch of the loop, for the trimmed command c and the read error e
Dispatch(options, c, e) ==
    IF e = "EOF" THEN Result(options, LoopRender, "exited")
    ELSE IF c = kwQuit THEN Result(options, LoopRender, "exited")
    ELSE IF c = kwH \/ c = kwHelp THEN Result(options, HelpRender, "loop")
    ELSE IF HasPrefix(c, kwRange) THEN RangeCase(options, c)
    ELSE IF HasPrefix(c, kwResetRange) THEN ResetCase(options)
    ELSE IF Len(c) = 0 THEN Result(options, EmptyRender, "loop")
    ELSE Result(options, DefaultRender, "loop")

\* the messages of the program, without their quotation marks
msgPrompt == "$ "
msgExiting == "Exiting..."
msgHelp == "quit or Ctrl-d to exit"
msgStartError == "Error parsing start time."
msgEndError == "Error parsing end time."
msgUnknown == "Unknown command. Type h for help."
msgOutputFile == "Output file: plot.png"
msgGnuplotOutput == "gnuplot output:"

\* the last message on standard output after the prompt, the read and the
\* switch, for the trimmed command c and the read error e
Output(c, e) ==
    IF e = "EOF" THEN msgExiting
    ELSE IF c = kwQuit THEN msgExiting
    ELSE IF c = kwH \/ c = kwHelp THEN msgHelp
    ELSE IF HasPrefix(c, kwRange)
         THEN IF Len(SplitN(c, " ", 3)) < 3 THEN msgPrompt
              ELSE IF StartParseError(SplitN(c, " ", 3)[2]) THEN msgStartError
              ELSE IF EndParseError(SplitN(c, " ", 3)[3]) THEN msgEndError
              ELSE msgPrompt
    ELSE IF HasPrefix(c, kwResetRange) THEN msgPrompt
    ELSE IF Len(c) = 0 THEN msgPrompt
    ELSE msgUnknown

(***************************************************************************)
(* Initial state and steps                                                 *)
(***************************************************************************)
Init ==
    /\ data \in Datasets
    /\ graphOptions = defaultGraphOptions
    /\ render = TRUE
    /\ pc = "loop"
    /\ cmd = <<>>
    /\ err = "nil"
    /\ gpw = [metricFiles |-> EmptyMap, options |-> defaultGraphOptions]
    /\ next = 1
    /\ script = <<>>
    /\ gnuFile = "none"
    /\ gnuplotErr = FALSE
    /\ fault = ""
    /\ passes = 0
    /\ started = FALSE
    /\ firstRender = EmptyMap
    /\ printed = ""

\* lines 195-196: a render pass begins with a new writer
NewPass ==
    /\ pc = "loop" /\ render
    /\ pc' = "route"
    /\ gpw' = newGnuPlotWriter(graphOptions)
    /\ next' = 1
    /\ script' = <<>>
    /\ gnuFile' = "none"
    /\ passes' = passes + 1
    /\ UNCHANGED <<data, graphOptions, render, cmd, err, gnuplotErr, fault,
                   started, firstRender, printed>>

\* lines 73-76: os.MkdirTemp fails
NewPassFault ==
    /\ pc = "loop" /\ render
    /\ pc' = "panic"
    /\ fault' = "MkdirTemp"
    /\ passes' = passes + 1
    /\ UNCHANGED <<data, graphOptions, render, cmd, err, gpw, next, script,
                   gnuFile, gnuplotErr, started, firstRender, printed>>

\* line 195 with render false: no render pass in this iteration
SkipRender ==
    /\ pc = "loop" /\ ~render
    /\ pc' = "prompt"
    /\ UNCHANGED <<data, graphOptions, render, cmd, err, gpw, next, script,
                   gnuFile, gnuplotErr, fault, passes, started, firstRender, printed>>

\* lines 197-199: one datum of the dataset is routed
AddFlatDatum ==
    /\ pc = "route" /\ next <= Len(data)
    /\ gpw' = addFlatDatum(gpw, data[next])
    /\ next' = next + 1
    /\ UNCHANGED <<data, graphOptions, render, pc, cmd, err, script, gnuFile,
                   gnuplotErr, fault, passes, started, firstRender, printed>>

\* lines 90-93 and 61-64: creating or writing the data file of the j-th
\* reading of the datum fails
AddFlatDatumFault ==
    /\ pc = "route" /\ next <= Len(data)
    /\ \E j \in 1..Len(data[next].Readings), what \in {"CreateTemp", "write"} :
          LET datum  == data[next]
              before == addReadings(gpw, datum, j - 1)
              name   == datum.Readings[j].MetricName
          IN  /\ InWindow(ConvertedTimeUnix(datum), gpw.options)
              /\ what = "CreateTemp" => name \notin DOMAIN before.metricFiles
              /\ gpw' = IF what = "CreateTemp" THEN before
                        ELSE [before EXCEPT
                                 !.metricFiles = getDatafile(@, name)]
              /\ fault' = what
    /\ pc' = "panic"
    /\ UNCHANGED <<data, graphOptions, render, cmd, err, next, script, gnuFile,
                   gnuplotErr, passes, started, firstRender, printed>>

\* lines 115, 128-164: every datum is routed; the script is compiled
CompileAndClose ==
    /\ pc = "route" /\ next > Len(data)
    /\ \E order \in MapOrders(gpw.metricFiles) :
          /\ script' = ScriptLines(gpw.metricFiles, order)
          /\ gpw' = [gpw EXCEPT !.metricFiles = CloseFirst(@, order, Len(order))]
    /\ gnuFile' = "closed"
    /\ pc' = "gnuplot"
    /\ firstRender' = IF started THEN firstRender ELSE Series(gpw)
    /\ printed' = msgOutputFile
    /\ UNCHANGED <<data, graphOptions, render, cmd, err, next, gnuplotErr,
                   fault, passes, started>>

\* lines 129-132: creating the top-level file fails
CompileCreateFault ==
    /\ pc = "route" /\ next > Len(data)
    /\ pc' = "panic"
    /\ fault' = "CreateTemp"
    /\ UNCHANGED <<data, graphOptions, render, cmd, err, gpw, next, script,
                   gnuFile, gnuplotErr, passes, started, firstRender, printed>>

\* lines 61-64 within CompileAndClose: the write after w written lines
\* fails; the deferred Close of the top-level file still runs
CompileWriteFault ==
    /\ pc = "route" /\ next > Len(data)
    /\ \E order \in MapOrders(gpw.metricFiles) :
       \E w \in 0..(Len(ScriptLines(gpw.metricFiles, order)) - 1) :
          /\ script' = SubSeq(ScriptLines(gpw.metricFiles, order), 1, w)
          /\ gpw' = [gpw EXCEPT !.metricFiles =
                        CloseFirst(@, order,
                            IF w > Len(ScriptHeader(gpw.metricFiles))
                            THEN w - Len(ScriptHeader(gpw.metricFiles)) ELSE 0)]
          /\ printed' = IF w >= 1 THEN msgOutputFile ELSE printed
    /\ gnuFile' = "closed"
    /\ pc' = "panic"
    /\ fault' = "write"
    /\ UNCHANGED <<data, graphOptions, render, cmd, err, next, gnuplotErr,
                   passes, started, firstRender>>

GnuplotMutant ==
    /\ pc = "gnuplot"
    /\ gnuplotErr' \in BOOLEAN
    /\ printed' = IF gnuplotErr' THEN msgGnuplotOutput ELSE printed
    /\ pc' = IF gnuplotErr' THEN "panic" ELSE "prompt"
    /\ UNCHANGED <<data, graphOptions, render, cmd, err, gpw, next, script,
                   gnuFile, fault, passes, started, firstRender>>

\* lines 118-123: gnuplot runs, and fails or not
Gnuplot ==
    /\ pc = "gnuplot"
    /\ gnuplotErr' \in BOOLEAN
    /\ printed' = IF gnuplotErr' THEN msgGnuplotOutput ELSE printed
    /\ pc' = "prompt"
    /\ UNCHANGED <<data, graphOptions, render, cmd, err, gpw, next, script,
                   gnuFile, fault, passes, started, firstRender>>

\* lines 203-268: the prompt, one read and the switch
ReadCommand ==
    /\ pc = "prompt"
    /\ \E in \in Inputs :
       \E c \in {TrimSpace(in.line)} :
       \E r \in {Dispatch(graphOptions, c, in.err)} :
              /\ cmd' = c
              /\ err' = in.err
              /\ graphOptions' = r.graphOptions
              /\ render' = r.render
              /\ pc' = r.pc
              /\ fault' = IF r.pc = "panic" THEN "index out of range" ELSE fault
              /\ printed' = Output(c, in.err)
    /\ passes' = 0
    /\ started' = TRUE
    /\ UNCHANGED <<data, gpw, next, script, gnuFile, gnuplotErr, firstRender>>

Next ==
    \/ NewPass
    \/ NewPassFault
    \/ SkipRender
    \/ AddFlatDatum
    \/ AddFlatDatumFault
    \/ CompileAndClose
    \/ CompileCreateFault
    \/ CompileWriteFault
    \/ Gnuplot
    \/ ReadCommand

Spec == Init /\ [][Next]_vars

TypeOK ==
    /\ data \in Datasets
    /\ graphOptions \in [minTimeSeconds : Int, maxTimeSeconds : Int]
    /\ render \in BOOLEAN
    /\ pc \in {"loop", "route", "gnuplot", "prompt", "exited", "panic"}
    /\ err \in {"nil", "EOF", "other"}
    /\ next \in 1..(Len(data) + 1)
    /\ gnuFile \in {"none", "open", "closed"}
    /\ passes \in 0..1

(***************************************************************************)
(* Properties                                                              *)
(***************************************************************************)
MetricNames == {cpu, mem, mem_used}

\* positions <<k, j>> of the readings named m among the datums routed so far
RoutedReadings(m) ==
    {p \in UNION {{<<k, j>> : j \in 1..Len(data[k].Readings)} : k \in 1..(next - 1)} :
        data[p[1]].Readings[p[2]].MetricName = m}

\* the lines of the series of m in the writer, none when it has no store
LinesOf(m) ==
    IF m \in DOMAIN gpw.metricFiles THEN gpw.metricFiles[m].lines ELSE <<>>

\* a command was read, and it was not the end of the input
CommandRead == started /\ err # "EOF"

\* the command is `range <start> <end>`
TwoBounds(c) == HasPrefix(c, kwRange) /\ Len(SplitN(c, " ", 3)) = 3
StartOf(c) == SplitN(c, " ", 3)[2]
EndOf(c) == SplitN(c, " ", 3)[3]

\* a range command one of whose bounds fails to parse
BoundFails(c) ==
    /\ TwoBounds(c)
    /\ StartParseError(StartOf(c)) \/ EndParseError(EndOf(c))

\* a range command both of whose bounds parse
RangeSucceeds(c) ==
    /\ TwoBounds(c)
    /\ ~StartParseError(StartOf(c)) /\ ~EndParseError(EndOf(c))

\* a non-empty line that matches no pattern of the command table
Unrecognized(c) ==
    /\ c # <<>> /\ c # kwQuit /\ c # kwH /\ c # kwHelp
    /\ ~HasPrefix(c, kwRange) /\ ~HasPrefix(c, kwResetRange)

\* C1: in every render pass a reading is appended to the series of its
\* metric if and only if minSeconds <= t <= maxSeconds, both ends inclusive,
\* whatever its value and name: the series of each metric holds one line per
\* routed reading of that name inside the window, and no other line; the
\* window of the pass is the window of the loop.
C1_InclusiveWindow ==
    /\ pc \in {"route", "gnuplot", "prompt"} => gpw.options = graphOptions
    /\ fault = "" =>
          \A m \in MetricNames :
             /\ Len(LinesOf(m)) =
                   Cardinality({p \in RoutedReadings(m) :
                       /\ gpw.options.minTimeSeconds <= data[p[1]].Time
                       /\ data[p[1]].Time <= gpw.options.maxTimeSeconds})
             /\ \A k \in 1..Len(LinesOf(m)) :
                   /\ gpw.options.minTimeSeconds <= LinesOf(m)[k].t
                   /\ LinesOf(m)[k].t <= gpw.options.maxTimeSeconds

\* a finished pass that kept a reading on each end of its window and dropped
\* one before it and one after it
C1_Witness ==
    /\ pc = "gnuplot" /\ fault = ""
    /\ gpw.options.minTimeSeconds = 100 /\ gpw.options.maxTimeSeconds = 150
    /\ \E k \in 1..Len(data) : data[k].Time = 100
    /\ \E k \in 1..Len(data) : data[k].Time = 150
    /\ \E k \in 1..Len(data) : data[k].Time = 200
    /\ \E m \in DOMAIN gpw.metricFiles : gpw.metricFiles[m].lines[1].t = 100
    /\ \E m \in DOMAIN gpw.metricFiles :
          gpw.metricFiles[m].lines[Len(gpw.metricFiles[m].lines)].t = 150

\* C2 (as claimed): a range command one of whose bounds fails to parse
\* leaves both minSeconds and maxSeconds as they were before the command.
C2_WindowKeptOnParseFailure ==
    [][(pc = "prompt" /\ err' # "EOF" /\ BoundFails(cmd'))
          => graphOptions' = graphOptions]_vars

\* C3 (as claimed): a range command one of whose bounds fails to parse
\* triggers no render pass before the next prompt.
C3_NoRenderOnParseFailure ==
    (CommandRead /\ BoundFails(cmd)) => (passes = 0 /\ pc \in {"loop", "prompt"})

\* C4 (as claimed): the loop stops only on `quit` or at the end of the input;
\* after any other line, also one beginning with `range `, it is at the head
\* of the loop again.
C4_LoopStopsOnlyOnQuitOrEOF ==
    [][pc = "prompt" =>
          \/ pc' = "prompt"
          \/ pc' = "loop"
          \/ pc' = "exited" /\ (err' = "EOF" \/ cmd' = kwQuit)]_vars

\* C5: after any sequence of range commands, `reset range` restores the
\* window to (0, MaxInt64), and the render pass it triggers ends with the
\* same series, with the same contents, as the render pass at startup.
C5_ResetReproducesFirstRender ==
    (CommandRead /\ cmd = kwResetRange) =>
        /\ pc \in {"loop", "route", "gnuplot", "prompt"} =>
              graphOptions = [minTimeSeconds |-> 0, maxTimeSeconds |-> MaxInt64]
        /\ pc \in {"route", "gnuplot", "prompt"} =>
              passes = 1 /\ gpw.options = graphOptions
        /\ pc \in {"gnuplot", "prompt"} => Series(gpw) = firstRender

\* the render pass of a `reset range` has finished and shows the two series,
\* with the two readings of cpu, that the startup pass showed
C5_Witness ==
    /\ CommandRead /\ cmd = kwResetRange
    /\ pc = "prompt" /\ passes = 1
    /\ data = Scenario
    /\ Series(gpw) = firstRender
    /\ DOMAIN firstRender = {cpu, mem}
    /\ Len(firstRender[cpu]) = 2

\* the series of routing a whole dataset, from no series at all, under a
\* window
RECURSIVE RouteFrom(_, _, _)
RouteFrom(g, d, n) ==
    IF n = 0 THEN g ELSE addFlatDatum(RouteFrom(g, d, n - 1), d[n])

SeriesOfWindow(d, options) ==
    Series(RouteFrom([metricFiles |-> EmptyMap, options |-> options], d, Len(d)))

\* C6: the series of a finished render pass depend only on the dataset and
\* on the window in force: whatever commands and passes came before, they
\* are the series of routing the dataset, from nothing, under that window.
C6_SeriesDependOnWindowOnly ==
    pc \in {"gnuplot", "prompt"} => Series(gpw) = SeriesOfWindow(data, graphOptions)

\* a pass finished under a narrowed window after earlier passes had built
\* other series
C6_Witness ==
    /\ CommandRead /\ RangeSucceeds(cmd)
    /\ pc = "gnuplot"
    /\ graphOptions = [minTimeSeconds |-> 200, maxTimeSeconds |-> MaxInt64]
    /\ DOMAIN firstRender = {cpu, mem_used}
    /\ DOMAIN gpw.metricFiles = {cpu}
    /\ Len(gpw.metricFiles[cpu].lines) = 1

\* C7: every successful range command and every `reset range` triggers
\* exactly one render pass before the next prompt; the pass starts from no
\* series, routes the whole dataset under the window as the command left
\* it, and no step changes the dataset.
C7_OneFreshPassPerWindowChange ==
    /\ [](( CommandRead /\ (RangeSucceeds(cmd) \/ cmd = kwResetRange) ) =>
            /\ pc = "loop" => (render /\ passes = 0)
            /\ pc \in {"route", "gnuplot", "prompt"} =>
                  (passes = 1 /\ gpw.options = graphOptions)
            /\ pc \in {"gnuplot", "prompt"} => next = Len(data) + 1)
    /\ [][(pc = "loop" /\ pc' = "route") =>
            /\ gpw'.metricFiles = EmptyMap
            /\ gpw'.options = graphOptions
            /\ next' = 1]_vars
    /\ [][data' = data]_vars

\* the one pass of a successful range command has routed every datum of a
\* dataset of which it kept only a part
C7_Witness ==
    /\ CommandRead /\ RangeSucceeds(cmd)
    /\ pc = "prompt" /\ passes = 1
    /\ data = Scenario /\ next = 4
    /\ graphOptions = [minTimeSeconds |-> 100, maxTimeSeconds |-> 150]
    /\ DOMAIN gpw.metricFiles = {cpu, mem}

\* the commands of the table that neither change the window nor render
QuietCommand(c) == c = <<>> \/ c = kwH \/ c = kwHelp \/ Unrecognized(c)

\* C8: an empty line, `h`, `help` and an unrecognized command each leave
\* the window unchanged and trigger no render pass before the next prompt.
C8_QuietCommands ==
    /\ [][(pc = "prompt" /\ err' # "EOF" /\ started' /\ QuietCommand(cmd')
              /\ pc' # "prompt")
            => (graphOptions' = graphOptions /\ pc' = "loop" /\ ~render')]_vars
    /\ []((CommandRead /\ QuietCommand(cmd)) =>
            (passes = 0 /\ pc \in {"loop", "prompt"}))

\* the next prompt is reached after `help`, under a narrowed window, with no
\* render pass in between
C8_Witness ==
    /\ CommandRead /\ cmd = kwHelp
    /\ pc = "prompt" /\ passes = 0 /\ ~render
    /\ graphOptions = [minTimeSeconds |-> 100, maxTimeSeconds |-> 150]

\* C9 (as claimed): a non-empty line that matches no pattern leaves the
\* window unchanged and triggers a render pass with the current window.
C9_UnrecognizedRenders ==
    (CommandRead /\ Unrecognized(cmd) /\ pc = "prompt") => passes = 1

\* C9 (amended): a non-empty line that matches no pattern leaves the window
\* unchanged and triggers no render pass: the writer of the last pass is
\* left as it was, and the next prompt follows.
C9_UnrecognizedIsIgnored ==
    /\ [][(pc = "prompt" /\ err' # "EOF" /\ started' /\ Unrecognized(cmd')
              /\ pc' # "prompt")
            => (graphOptions' = graphOptions /\ ~render' /\ gpw' = gpw)]_vars
    /\ [][(CommandRead /\ Unrecognized(cmd) /\ pc = "loop")
            => (pc' \in {"loop", "prompt"} /\ gpw' = gpw /\ script' = script)]_vars

\* an unrecognized command was read under a narrowed window and the next
\* prompt is reached without a pass
C9_Witness ==
    /\ CommandRead /\ cmd = Zoom
    /\ pc = "prompt" /\ passes = 0
    /\ graphOptions = [minTimeSeconds |-> 200, maxTimeSeconds |-> 150]

\* C10: `range start X` leaves the window at (0, X), as `range
\* 1970-01-01T00:00:00 X` does, and `range X end` leaves it at (X, MaxInt64);
\* the other bound is the parsed value of X (150 seconds for
\* 1970-01-01T00:02:30, 200 for 1970-01-01T00:03:20), and the pass that
\* follows runs under that window.
C10_OpenBounds ==
    (CommandRead /\ RangeSucceeds(cmd) /\ pc \in {"loop", "route", "gnuplot", "prompt"}) =>
        /\ StartOf(cmd) = kwStart =>
              /\ graphOptions.minTimeSeconds = 0
              /\ graphOptions.maxTimeSeconds =
                    IF EndOf(cmd) = kwEnd THEN MaxInt64 ELSE UnixOf(EndOf(cmd))
              /\ EndOf(cmd) = T150 => graphOptions.maxTimeSeconds = 150
              /\ RangeCase(gpw.options, kwRange \o T0 \o Sp \o EndOf(cmd))
                    = Result(graphOptions, TRUE, "loop")
        /\ EndOf(cmd) = kwEnd =>
              /\ graphOptions.maxTimeSeconds = MaxInt64
              /\ graphOptions.minTimeSeconds =
                    IF StartOf(cmd) = kwStart THEN 0 ELSE UnixOf(StartOf(cmd))
              /\ StartOf(cmd) = T200 => graphOptions.minTimeSeconds = 200
        /\ (StartOf(cmd) = kwStart \/ EndOf(cmd) = kwEnd) =>
              /\ pc = "loop" => render
              /\ pc \in {"route", "gnuplot", "prompt"} =>
                    (passes = 1 /\ gpw.options = graphOptions)
              /\ pc \in {"gnuplot", "prompt"} =>
                    Series(gpw) = SeriesOfWindow(data, graphOptions)

\* `range start 1970-01-01T00:02:30` was read under a window whose lower
\* bound was 200, and its pass has finished
C10_Witness ==
    /\ CommandRead /\ cmd = kwRange \o kwStart \o Sp \o T150
    /\ pc = "gnuplot"
    /\ graphOptions = [minTimeSeconds |-> 0, maxTimeSeconds |-> 150]
    /\ data = Scenario
    /\ DOMAIN gpw.metricFiles = {cpu, mem}

\* compilation has ended: it returned, or it panicked after the top-level
\* file was created
CompilationEnded == pc = "gnuplot" \/ (pc = "panic" /\ gnuFile = "closed")

\* C11 (as claimed): when the script compilation of a pass ends, completed
\* or aborted part-way, every backing store of the pass is closed.
C11_StoresClosedWhenCompilationEnds ==
    CompilationEnded =>
        \A m \in DOMAIN gpw.metricFiles : gpw.metricFiles[m].closed

\* the plot directives of the script, in the order they were written
PlotsOf(lines) == SelectSeq(lines, LAMBDA l : l.kind = "plot")

\* C12 (as claimed): the plot directives of a compiled script are in
\* metric-first-seen order; a data file is named by the rank at which its
\* metric was first routed, so the k-th directive plots file k.
C12_PlotsInFirstSeenOrder ==
    pc \in {"gnuplot", "prompt"} =>
        \A k \in 1..Len(PlotsOf(script)) : PlotsOf(script)[k].file = k

\* the metrics that have a reading of the dataset inside the window
MetricsInWindow(d, options) ==
    {m \in MetricNames :
        \E k \in 1..Len(d) : \E j \in 1..Len(d[k].Readings) :
            /\ d[k].Readings[j].MetricName = m
            /\ options.minTimeSeconds <= d[k].Time
            /\ d[k].Time <= options.maxTimeSeconds}

\* C13: in every compiled script the canvas height is 200 times N, the
\* layout has N rows and there are exactly N plot directives, one per store,
\* where N is the number of metric names with a reading inside the window; a
\* metric without such a reading has no store and no plot directive.
C13_OneGraphPerMetricInWindow ==
    pc \in {"gnuplot", "prompt"} =>
        LET inside == MetricsInWindow(data, gpw.options)
            n      == Cardinality(inside)
        IN  /\ DOMAIN gpw.metricFiles = inside
            /\ script[1].kind = "term" /\ script[1].height = 200 * n
            /\ script[3].kind = "multiplot" /\ script[3].rows = n
            /\ Len(PlotsOf(script)) = n
            /\ Len(script) = 8 + n
            /\ {PlotsOf(script)[k].file : k \in 1..n}
                  = {gpw.metricFiles[m].name : m \in inside}
            /\ Cardinality({gpw.metricFiles[m].name : m \in inside}) = n

\* a script compiled for the scenario under a window that holds one reading
\* of cpu and none of mem: one graph of height 200
C13_Witness ==
    /\ pc = "gnuplot"
    /\ data = Scenario
    /\ gpw.options = [minTimeSeconds |-> 200, maxTimeSeconds |-> MaxInt64]
    /\ DOMAIN gpw.metricFiles = {cpu}
    /\ script[1].height = 200
    /\ Len(script) = 9

\* the readings of the first n datums of a dataset, in arrival order, each
\* with the timestamp of its datum
RECURSIVE Arrivals(_, _)
Arrivals(d, n) ==
    IF n = 0 THEN <<>>
    ELSE Arrivals(d, n - 1)
             \o [j \in 1..Len(d[n].Readings) |->
                    [t |-> d[n].Time, name |-> d[n].Readings[j].MetricName,
                     value |-> d[n].Readings[j].Value]]

\* the pairs a series of m is claimed to hold: timestamp, and value as
\* printed with five decimals
RECURSIVE PairsOf(_, _, _)
PairsOf(arrivals, m, options) ==
    IF arrivals = <<>> THEN <<>>
    ELSE LET a == Head(arrivals)
         IN  (IF /\ a.name = m
                 /\ options.minTimeSeconds <= a.t
                 /\ a.t <= options.maxTimeSeconds
              THEN <<[t |-> a.t, v |-> (a.value + 5) \div 10]>>
              ELSE <<>>)
                 \o PairsOf(Tail(arrivals), m, options)

\* C14: after routing a dataset the series of each metric m is exactly the
\* sequence, in arrival order, unsorted and with duplicates kept, of the
\* (timestamp, value) pairs of the in-window readings named m; for the
\* scenario under the window [100, 150], cpu holds only t=100 and mem t=150.
C14_SeriesInArrivalOrder ==
    pc \in {"gnuplot", "prompt"} =>
        /\ \A m \in MetricNames :
              LinesOf(m) = PairsOf(Arrivals(data, Len(data)), m, gpw.options)
        /\ (data = Scenario
              /\ gpw.options = [minTimeSeconds |-> 100, maxTimeSeconds |-> 150]) =>
              /\ LinesOf(cpu) = <<[t |-> 100, v |-> 100000]>>
              /\ LinesOf(mem) = <<[t |-> 150, v |-> 500000]>>
              /\ DOMAIN gpw.metricFiles = {cpu, mem}

\* the scenario has been routed under the window [100, 150]
C14_Witness ==
    /\ pc = "gnuplot"
    /\ data = Scenario
    /\ gpw.options = [minTimeSeconds |-> 100, maxTimeSeconds |-> 150]
    /\ Len(LinesOf(cpu)) = 1 /\ Len(LinesOf(mem)) = 1

\* no reading of the dataset is inside the window of the pass
NothingInWindow == MetricsInWindow(data, gpw.options) = {}

\* C15: when the dataset is empty, and when the window excludes every
\* reading, the pass creates no series, compilation can complete, and the
\* compiled script is the header alone, with height 0 and 0 rows.
C15_EmptyRender ==
    /\ (pc = "route" /\ next > Len(data) /\ NothingInWindow) =>
          (gpw.metricFiles = EmptyMap /\ ENABLED CompileAndClose)
    /\ (pc \in {"gnuplot", "prompt"} /\ NothingInWindow) =>
          /\ gpw.metricFiles = EmptyMap
          /\ Len(script) = 8
          /\ script[1].height = 0
          /\ script[3].rows = 0
          /\ PlotsOf(script) = <<>>
          /\ gnuFile = "closed" /\ fault = ""

\* the script of an empty dataset has been compiled
C15_Witness ==
    /\ pc = "gnuplot"
    /\ data = <<>>
    /\ gpw.metricFiles = EmptyMap
    /\ Len(script) = 8 /\ script[3].rows = 0

\* C16: a renderer invocation that fails is reported and is not fatal: the
\* gnuplot output is printed, the loop is at its next prompt, ready to read,
\* and the window is the one the failed render ran under.
C16_RendererFailureNotFatal ==
    /\ [][(pc = "gnuplot" /\ pc' # "gnuplot" /\ gnuplotErr') =>
            /\ pc' = "prompt"
            /\ printed' = msgGnuplotOutput
            /\ fault' = ""
            /\ graphOptions' = graphOptions
            /\ gpw'.options = graphOptions]_vars
    /\ []((pc = "prompt" /\ passes = 1 /\ gnuplotErr) =>
            /\ printed = msgGnuplotOutput
            /\ gpw.options = graphOptions
            /\ ENABLED ReadCommand)

\* the render of a narrowed window failed and the next prompt is reached
C16_Witness ==
    /\ pc = "prompt" /\ passes = 1 /\ gnuplotErr
    /\ printed = msgGnuplotOutput
    /\ CommandRead /\ RangeSucceeds(cmd)
    /\ graphOptions = [minTimeSeconds |-> 100, maxTimeSeconds |-> 150]

\* the number of underscores among the first n characters of a name
RECURSIVE UnderscoresIn(_, _)
UnderscoresIn(name, n) ==
    IF n = 0 THEN 0
    ELSE UnderscoresIn(name, n - 1) + (IF name[n] = "_" THEN 1 ELSE 0)

\* title is name with a backslash put before every underscore, and every
\* character kept, in the same order
IsEscapedName(title, name) ==
    /\ Len(title) = Len(name) + UnderscoresIn(name, Len(name))
    /\ \A i \in 1..Len(name) :
          LET at == i + UnderscoresIn(name, i - 1)
          IN  IF name[i] = "_"
              THEN title[at] = "\\" /\ title[at + 1] = "_"
              ELSE title[at] = name[i]

\* C17: the title of the plot directive of every metric is the metric name
\* with every underscore replaced by a backslash and an underscore, and
\* every other character unchanged and in the same order.
C17_TitleEscapesUnderscores ==
    \A k \in 1..Len(PlotsOf(script)) :
        \E m \in DOMAIN gpw.metricFiles :
            /\ gpw.metricFiles[m].name = PlotsOf(script)[k].file
            /\ IsEscapedName(PlotsOf(script)[k].title, m)

\* a compiled script plots a metric whose name has four underscores, under
\* a title four characters longer
C17_Witness ==
    /\ pc = "gnuplot"
    /\ mem_used \in DOMAIN gpw.metricFiles
    /\ UnderscoresIn(mem_used, Len(mem_used)) = 4
    /\ \E k \in 1..Len(PlotsOf(script)) :
          /\ PlotsOf(script)[k].file = gpw.metricFiles[mem_used].name
          /\ Len(PlotsOf(script)[k].title) = Len(mem_used) + 4

\* no store of the writer is closed
AllOpen == \A m \in DOMAIN gpw.metricFiles : ~gpw.metricFiles[m].closed

\* C18: each render pass compiles exactly once, and only after every datum
\* has been routed: while a pass routes, its stores are open and nothing is
\* compiled; the compilation starts with every datum routed and nothing
\* compiled; a closed store is never written again; and a new pass starts
\* with a writer that has no store.
C18_CompileOncePerPass ==
    /\ [](pc = "route" => (AllOpen /\ script = <<>> /\ gnuFile = "none"))
    /\ [][(gnuFile' # gnuFile /\ gnuFile' = "closed") =>
            (pc = "route" /\ next = Len(data) + 1 /\ script = <<>> /\ AllOpen)]_vars
    /\ [][\A m \in DOMAIN gpw.metricFiles :
            gpw.metricFiles[m].closed =>
                \/ m \in DOMAIN gpw'.metricFiles
                     /\ gpw'.metricFiles[m] = gpw.metricFiles[m]
                \/ pc = "loop" /\ pc' = "route" /\ gpw'.metricFiles = EmptyMap]_vars
    /\ [][(pc = "loop" /\ pc' = "route") =>
            (gpw'.metricFiles = EmptyMap /\ script' = <<>> /\ gnuFile' = "none")]_vars
    /\ [][(pc = "gnuplot" \/ pc = "prompt") =>
            (gpw' = gpw /\ script' = script /\ gnuFile' = gnuFile)]_vars

\* a pass later than the startup pass has compiled, after routing the three
\* datums of the scenario, and closed its two stores
C18_Witness ==
    /\ pc = "gnuplot" /\ started /\ passes = 1
    /\ data = Scenario /\ next = 4
    /\ DOMAIN gpw.metricFiles = {cpu, mem}
    /\ \A m \in DOMAIN gpw.metricFiles : gpw.metricFiles[m].closed
    /\ Len(script) = 10 /\ gnuFile = "closed"

\* C19: after a successful startup exactly one render pass, under the
\* default window (0, MaxInt64), runs before the first prompt is shown and
\* before any input is read.
C19_OneDefaultPassAtStartup ==
    ~started =>
        /\ graphOptions = [minTimeSeconds |-> 0, maxTimeSeconds |-> MaxInt64]
        /\ cmd = <<>> /\ printed # msgPrompt
        /\ pc \in {"loop", "route", "gnuplot", "prompt", "panic"}
        /\ pc = "loop" => (render /\ passes = 0)
        /\ pc \in {"route", "gnuplot", "prompt"} =>
              /\ passes = 1
              /\ gpw.options = [minTimeSeconds |-> 0, maxTimeSeconds |-> MaxInt64]
        /\ pc = "prompt" =>
              /\ next = Len(data) + 1
              /\ Len(script) = 8 + Cardinality(DOMAIN gpw.metricFiles)
              /\ firstRender = Series(gpw)

\* the first prompt is about to be shown: the startup pass has rendered the
\* whole scenario
C19_Witness ==
    /\ ~started /\ pc = "prompt" /\ passes = 1
    /\ data = Scenario
    /\ DOMAIN gpw.metricFiles = {cpu, mem}
    /\ Len(LinesOf(cpu)) = 2 /\ Len(LinesOf(mem)) = 1

\* a range command whose bounds are two timestamps, the first the later
InvertedRange(c) ==
    /\ RangeSucceeds(c)
    /\ StartOf(c) # kwStart /\ EndOf(c) # kwEnd
    /\ UnixOf(StartOf(c)) > UnixOf(EndOf(c))

\* C20: a range command with well-formed bounds is accepted without error
\* also when start is later than end: the window then holds the inverted
\* bounds, and the pass the command triggers creates no series and compiles
\* a script with zero rows.
C20_InvertedWindowAccepted ==
    (CommandRead /\ InvertedRange(cmd)) =>
        /\ graphOptions.minTimeSeconds = UnixOf(StartOf(cmd))
        /\ graphOptions.maxTimeSeconds = UnixOf(EndOf(cmd))
        /\ graphOptions.minTimeSeconds > graphOptions.maxTimeSeconds
        /\ cmd = kwRange \o T200 \o Sp \o T150 =>
              graphOptions = [minTimeSeconds |-> 200, maxTimeSeconds |-> 150]
        /\ pc = "loop" => (render /\ passes = 0 /\ printed = msgPrompt)
        /\ pc # "panic" => printed \in {msgPrompt, msgOutputFile, msgGnuplotOutput}
        /\ pc = "panic" => fault \in {"MkdirTemp", "CreateTemp", "write"}
        /\ pc \in {"route", "gnuplot", "prompt"} =>
              (passes = 1 /\ gpw.options = graphOptions /\ gpw.metricFiles = EmptyMap)
        /\ pc \in {"gnuplot", "prompt"} =>
              (Len(script) = 8 /\ script[1].height = 0 /\ script[3].rows = 0)

\* `range 1970-01-01T00:03:20 1970-01-01T00:02:30` was read, and its pass
\* over the scenario has compiled a script without graphs
C20_Witness ==
    /\ CommandRead /\ cmd = kwRange \o T200 \o Sp \o T150
    /\ pc = "gnuplot"
    /\ data = Scenario
    /\ graphOptions = [minTimeSeconds |-> 200, maxTimeSeconds |-> 150]
    /\ gpw.metricFiles = EmptyMap
    /\ Len(script) = 8

====
